---- MODULE Spec2Model ----
(***************************************************************************)
(* Model of the BLE transport manager of HID-BLE-relay-host                *)
(* (src/main.py, class BleManager; src/monitor_ble.py holds a near copy).  *)
(*                                                                         *)
(* Two threads: the transport thread runs _run_loop and, inside            *)
(* run_until_complete, a single-threaded asyncio loop (the connect_and_run *)
(* task, the _send_data tasks and the callbacks of the BLE backend); the   *)
(* producer thread (the GUI) calls send_data_sync.  Code of the loop       *)
(* between two awaits is atomic with respect to the other loop code but    *)
(* not with respect to the producer thread, so each write of a shared      *)
(* attribute (client, connected, rx_char) is a step of its own.            *)
(***************************************************************************)
EXTENDS Integers, Sequences, FiniteSets, TLC

\* ---- bounds of the model ----
MaxSessions == 2     \* connect_and_run attempts explored
MaxMsgs == 1         \* send_data_sync calls explored
MaxLen == 4          \* longest payload given to sliced in SlicedSpec
MaxN == 3            \* largest slice size given to sliced in SlicedSpec
MaxW == 8            \* widest viewfinder of PointerSpec, in pixels
MaxAdv == 2          \* most devices advertising during a scan of ScanSpec
MaxH == 6            \* highest viewfinder of PointerSpec, in pixels

\* ---- values drawn by the environment ----
None == 0
\* self.rx_char = NoChar: no characteristic object
NoChar == [sess |-> None, mtu |-> 0]
\* max_write_without_response_size values a link may negotiate (scaled down)
MTUs == {2, 3}
\* messages the producer submits, as sequences of code points ("P", "ML:1,")
Msgs == {<<80>>, <<77, 76, 58, 49, 44>>}
Bytes == {0, 1}
\* the resolution set on the camera (src/main.py 22-23)
TARGET_CAPTURE_WIDTH == 1920
TARGET_CAPTURE_HEIGHT == 1080
\* event.key() values of the key events: Qt.Key_A
Keys == {65}
\* max write sizes of the link of ReadySpec: a small one, and that of a link
\* with a 23-byte ATT MTU
ReadyMTUs == {4, 20}

\* ---- strings of the scan, as sequences of code points ----
\* TARGET_BLE_NAME = "HID BLE Relay"
TARGET_BLE_NAME ==
    <<72, 73, 68, 32, 66, 76, 69, 32, 82, 101, 108, 97, 121>>
\* HID_SERVICE_UUID = UART_SERVICE_UUID = "597f1290-5b99-477d-9261-f0ed801fc566"
HID_SERVICE_UUID ==
    <<53, 57, 55, 102, 49, 50, 57, 48, 45, 53, 98, 57, 57, 45, 52, 55, 55,
      100, 45, 57, 50, 54, 49, 45, 102, 48, 101, 100, 56, 48, 49, 102, 99,
      53, 54, 54>>
UART_SERVICE_UUID == HID_SERVICE_UUID
\* the same UUID as a peripheral may spell it: "597F1290-5B99-477D-9261-F0ED801FC566"
UpperUuid ==
    <<53, 57, 55, 70, 49, 50, 57, 48, 45, 53, 66, 57, 57, 45, 52, 55, 55,
      68, 45, 57, 50, 54, 49, 45, 70, 48, 69, 68, 56, 48, 49, 70, 67, 53,
      54, 54>>
\* the battery service, "0000180f-0000-1000-8000-00805f9b34fb"
OtherUuid ==
    <<48, 48, 48, 48, 49, 56, 48, 102, 45, 48, 48, 48, 48, 45, 49, 48, 48,
      48, 45, 56, 48, 48, 48, 45, 48, 48, 56, 48, 53, 102, 57, 98, 51, 52,
      102, 98>>
\* device.name of the advertisers: none (<<>>), "HID BLE Relay",
\* "HID BLE Relay #2", "HID BLE", "hid ble relay"
Names ==
    {<<>>,
     TARGET_BLE_NAME,
     TARGET_BLE_NAME \o <<32, 35, 50>>,
     SubSeq(TARGET_BLE_NAME, 1, 7),
     <<104, 105, 100, 32, 98, 108, 101, 32, 114, 101, 108, 97, 121>>}
Uuids == {HID_SERVICE_UUID, UpperUuid, OtherUuid}

VARIABLES
    supPc,       \* _run_loop: "top" | "running" | "stopped" | "dead"
    attempts,    \* number of connect_and_run coroutines started (the session id)
    ends,        \* how each finished session left connect_and_run, in order
    sessPc,      \* position of the connect_and_run task
    sessExc,     \* exception leaving the async with: "none" | "notify_error" |
                 \* "cancelled" | "exit_cancelled"
    sessCancel,  \* task.cancel() requested on connect_and_run, not yet delivered
    linkUp,      \* the physical link of the open BleakClient is up
    linkMtu,     \* max write size negotiated on the current link
    open,        \* sessions whose BleakClient context is entered and not left
    client,      \* self.client: None or the session of the BleakClient
    connected,   \* self.connected
    rx_char,     \* self.rx_char: NoChar or [sess, mtu] of the session that resolved it
    prod,        \* producer thread inside send_data_sync
    nextMsg,     \* id of the next send_data_sync call
    send,        \* per call: the state of its _send_data coroutine
    writes,      \* write_gatt_char calls issued, in order
    cData, cN, cOut, cPc,  \* sliced under test (SlicedSpec)
    event,       \* a mouse event and the geometry of the viewfinder (PointerSpec)
    sent,        \* what its handler passed to send_data_sync
    adv,         \* the devices advertising during a scan (ScanSpec)
    device       \* what find_device_by_filter returned

vars == <<supPc, attempts, ends, sessPc, sessExc, sessCancel, linkUp, linkMtu,
          open, client, connected, rx_char, prod, nextMsg, send, writes,
          cData, cN, cOut, cPc, event, sent, adv, device>>

supVars == <<supPc, attempts, ends>>
sessVars == <<sessPc, sessExc, sessCancel>>
linkVars == <<linkUp, linkMtu, open>>
shared == <<client, connected, rx_char>>
prodVars == <<prod, nextMsg>>
chunkVars == <<cData, cN, cOut, cPc>>
guiVars == <<event, sent>>
scanVars == <<adv, device>>
pureVars == <<chunkVars, guiVars, scanVars>>

Min(a, b) == IF a < b THEN a ELSE b

\* ---------------------------------------------------------------------
\* sliced(data, n): takewhile(len, (data[i : i + n] for i in count(0, n)))
\* ---------------------------------------------------------------------
\* data[i : j] of Python for 0 <= i <= j (indices beyond the end are clipped)
PySlice(data, i, j) == SubSeq(data, Min(i, Len(data)) + 1, Min(j, Len(data)))

RECURSIVE slicedFrom(_, _, _)
slicedFrom(data, n, i) ==
    LET s == PySlice(data, i, i + n)
    IN  IF Len(s) = 0 THEN <<>> ELSE <<s>> \o slicedFrom(data, n, i + n)

\* a chunker that walks range(len(data) // n): the remainder is lost
slicedFullOnly(data, n) ==
    [k \in 1..(Len(data) \div n) |-> SubSeq(data, (k - 1) * n + 1, k * n)]

sliced(data, n) == slicedFrom(data, n, 0)

\* msg.encode(): UTF-8; a code point below 128 is one byte, the others of the
\* model (below 2048) are two bytes
RECURSIVE encode(_)
encode(msg) ==
    IF msg = <<>> THEN <<>>
    ELSE LET c == Head(msg)
         IN  (IF c < 128 THEN <<c>> ELSE <<192 + (c \div 64), 128 + (c % 64)>>)
             \o encode(Tail(msg))

\* hex(n) of Python for n >= 0: "0x" and the digits of n in base 16, lower case
HexDigit(d) == IF d < 10 THEN 48 + d ELSE 97 + (d - 10)

RECURSIVE HexDigits(_)
HexDigits(n) ==
    IF n < 16 THEN <<HexDigit(n)>>
    ELSE Append(HexDigits(n \div 16), HexDigit(n % 16))

\* the digits alone, as format(n, "x") gives them
hexNoPrefix(n) == HexDigits(n)

hex(n) == <<48, 120>> \o HexDigits(n)

\* ---------------------------------------------------------------------
\* Initial state: BleManager.__init__ has run, the thread is at `while True`
\* ---------------------------------------------------------------------
\* the producer outside send_data_sync
\* ev: the GUI event behind a call (h: handler, script: entry point, key)
NoEv == [h |-> "none", script |-> "none", key |-> 0]

IdleProd == [pc |-> "idle", msg |-> <<>>, nr |-> FALSE, ep |-> <<0, FALSE>>,
             ev |-> NoEv]

\* st: "none" | "refused" | "queued" | "created" | "writing" | "cancelling" |
\*     "done" | "dropped" | "failed" | "cancelled"
\* cl: the BleakClient the write in flight was issued on
NoSend == [st |-> "none", msg |-> <<>>, chunks |-> <<>>, max_size |-> 0,
           idx |-> 0, cl |-> None, nr |-> FALSE, ev |-> NoEv]

MainInit ==
    /\ supPc = "top" /\ attempts = 0 /\ ends = <<>>
    /\ sessPc = "none" /\ sessExc = "none" /\ sessCancel = FALSE
    /\ linkUp = FALSE /\ linkMtu = 0 /\ open = {}
    /\ client = None /\ connected = FALSE /\ rx_char = NoChar
    /\ prod = IdleProd
    /\ nextMsg = 1
    /\ send = [m \in 1..MaxMsgs |-> NoSend]
    /\ writes = <<>>

\* nothing under test: no input drawn for sliced, no mouse event, no scan
NoEvent == [h |-> "none", button |-> "none", x |-> 0, y |-> 0,
            fw |-> 0, fh |-> 0]
NoSent == [st |-> "idle", msg |-> <<>>, pos_x |-> 0, pos_y |-> 0]
NoDev == [name |-> <<>>, uuids |-> {}]
NoDevice == [st |-> "idle", dev |-> NoDev]

IdleSliced == cData = <<>> /\ cN = 1 /\ cOut = <<>> /\ cPc = "idle"
IdleGui == event = NoEvent /\ sent = NoSent
NoAdv == [script |-> "none", devs |-> {}]
IdleScan == adv = NoAdv /\ device = NoDevice

Init ==
    /\ MainInit
    /\ IdleSliced /\ IdleGui /\ IdleScan


\* ---------------------------------------------------------------------
\* The asyncio loop
\* ---------------------------------------------------------------------
\* positions at which connect_and_run is suspended in an await
AwaitPcs == {"scan", "connect", "notify", "serve", "aexit"}

\* the loop is inside run_until_complete and no coroutine is executing, so a
\* ready callback or another task may run
LoopFree == supPc = "running" /\ sessPc \in AwaitPcs

\* the session can serve writes: scan, connect, start_notify and the
\* resolution of rx_char are done for the current session, teardown has not begun
Ready == supPc = "running" /\ sessPc = "serve"

\* ---------------------------------------------------------------------
\* _run_loop (src/main.py 54-62)
\* ---------------------------------------------------------------------
\* while True: self.loop.run_until_complete(self.connect_and_run())
run_loop ==
    /\ supPc = "top"
    /\ attempts < MaxSessions
    /\ supPc' = "running"
    /\ attempts' = attempts + 1
    /\ sessPc' = "scan"
    /\ UNCHANGED <<ends, sessExc, sessCancel, linkVars, shared, prodVars, send,
                   writes, pureVars>>

\* how connect_and_run can end
Returns == {"timeout", "served"}
Errors == {"scan_error", "connect_error", "notify_error"}
\* CancelledError thrown into start_notify, and into the exit of the async with
Cancels == {"cancelled", "exit_cancelled"}

\* run_until_complete comes back: `how` is in Returns when connect_and_run
\* returned, in Errors when an Exception left it (except Exception: print,
\* loop.stop(), break) and in Cancels when CancelledError, a BaseException
\* that `except Exception` does not catch, left it and ends the thread
run_until_complete_ends(how) ==
    /\ ends' = Append(ends, how)
    /\ sessPc' = "none"
    /\ supPc' = CASE how \in Returns -> "top"
                  [] how \in Errors -> "stopped"
                  [] OTHER -> "dead"

\* ---------------------------------------------------------------------
\* connect_and_run (src/main.py 64-111)
\* ---------------------------------------------------------------------
\* a scan timeout handled as an error: raise instead of return
ScanTimeoutFatal ==
    /\ supPc = "running" /\ sessPc = "scan"
    /\ ends' = Append(ends, "timeout")
    /\ sessPc' = "none"
    /\ supPc' = "stopped"
    /\ UNCHANGED <<attempts, sessExc, sessCancel, linkVars, shared, prodVars,
                   send, writes, pureVars>>

\* find_device_by_filter returns None: "NUS Device not found", return
ScanTimeout ==
    /\ supPc = "running" /\ sessPc = "scan"
    /\ run_until_complete_ends("timeout")
    /\ UNCHANGED <<attempts, sessExc, sessCancel, linkVars, shared, prodVars,
                   send, writes, pureVars>>

\* find_device_by_filter raises (adapter unavailable)
ScanFail ==
    /\ supPc = "running" /\ sessPc = "scan"
    /\ run_until_complete_ends("scan_error")
    /\ UNCHANGED <<attempts, sessExc, sessCancel, linkVars, shared, prodVars,
                   send, writes, pureVars>>

\* a device matched; async with BleakClient(...) begins to connect
ScanFound ==
    /\ supPc = "running" /\ sessPc = "scan"
    /\ sessPc' = "connect"
    /\ open' = open \cup {attempts}
    /\ UNCHANGED <<supVars, sessExc, sessCancel, linkUp, linkMtu, shared,
                   prodVars, send, writes, pureVars>>

\* __aenter__ returns: the link is up with a negotiated max write size
ConnectOk ==
    /\ supPc = "running" /\ sessPc = "connect"
    /\ \E m \in MTUs : linkMtu' = m
    /\ linkUp' = TRUE
    /\ sessPc' = "l91"
    /\ UNCHANGED <<supVars, sessExc, sessCancel, open, shared, prodVars, send,
                   writes, pureVars>>

\* __aenter__ raises: the body of the async with is never entered
ConnectFail ==
    /\ supPc = "running" /\ sessPc = "connect"
    /\ open' = open \ {attempts}
    /\ run_until_complete_ends("connect_error")
    /\ UNCHANGED <<attempts, sessExc, sessCancel, linkUp, linkMtu, shared,
                   prodVars, send, writes, pureVars>>

\* line 91: self.client = client
SetClient ==
    /\ supPc = "running" /\ sessPc = "l91"
    /\ client' = attempts
    /\ sessPc' = "l92"
    /\ UNCHANGED <<supVars, sessExc, sessCancel, linkVars, connected, rx_char,
                   prodVars, send, writes, pureVars>>

\* line 92: self.connected = True; then await client.start_notify(...)
SetConnected ==
    /\ supPc = "running" /\ sessPc = "l92"
    /\ connected' = TRUE
    /\ sessPc' = "notify"
    /\ UNCHANGED <<supVars, sessExc, sessCancel, linkVars, client, rx_char,
                   prodVars, send, writes, pureVars>>

\* start_notify returns; lines 100-101 resolve self.rx_char; the serve loop
\* (while True: await asyncio.sleep(1.0)) is entered
NotifyOk ==
    /\ supPc = "running" /\ sessPc = "notify" /\ ~sessCancel
    /\ rx_char' = [sess |-> attempts, mtu |-> linkMtu]
    /\ sessPc' = "serve"
    /\ UNCHANGED <<supVars, sessExc, sessCancel, linkVars, client, connected,
                   prodVars, send, writes, pureVars>>

\* start_notify raises, or get_service / get_characteristic finds nothing
\* (AttributeError on None): the exception leaves the body of the async with,
\* outside the try / finally of lines 103-111
NotifyFail ==
    /\ supPc = "running" /\ sessPc = "notify" /\ ~sessCancel
    /\ sessExc' = "notify_error"
    /\ sessPc' = "aexit"
    /\ UNCHANGED <<supVars, sessCancel, linkVars, shared, prodVars, send,
                   writes, pureVars>>

\* handle_disconnect (lines 83-86), run by the loop when the link drops:
\* for task in asyncio.all_tasks(): task.cancel()
CancelAll(s) ==
    [m \in DOMAIN s |->
        IF s[m].st \in {"created", "writing"}
        THEN [s[m] EXCEPT !.st = "cancelling"] ELSE s[m]]

\* a callback that stays registered after its session has ended and runs on a
\* later event of the adapter
handle_disconnect_stale ==
    /\ LoopFree /\ (linkUp \/ ends # <<>>)
    /\ linkUp' = FALSE
    /\ sessCancel' = TRUE
    /\ send' = CancelAll(send)
    /\ UNCHANGED <<supVars, sessPc, sessExc, linkMtu, open, shared, prodVars,
                   writes, pureVars>>

handle_disconnect ==
    /\ LoopFree /\ linkUp
    /\ linkUp' = FALSE
    /\ sessCancel' = TRUE
    /\ send' = CancelAll(send)
    /\ UNCHANGED <<supVars, sessPc, sessExc, linkMtu, open, shared, prodVars,
                   writes, pureVars>>

\* a serve loop without `except asyncio.CancelledError: pass`
DeliverCancelUncaught ==
    /\ supPc = "running" /\ sessCancel
    /\ sessCancel' = FALSE
    /\ sessPc' = "aexit" /\ sessExc' = "cancelled"
    /\ UNCHANGED <<supVars, linkVars, shared, prodVars, send, writes, pureVars>>

\* CancelledError is thrown into connect_and_run at the await it is suspended in
DeliverCancel ==
    /\ supPc = "running" /\ sessCancel
    /\ sessCancel' = FALSE
    /\ CASE sessPc = "serve" ->      \* except asyncio.CancelledError: pass; finally
              /\ sessPc' = "l110" /\ UNCHANGED sessExc
         [] sessPc = "notify" ->     \* not inside the try: leaves the async with
              /\ sessPc' = "aexit" /\ sessExc' = "cancelled"
         [] OTHER ->                 \* inside __aexit__: replaces what was raised
              /\ sessPc' = "aexit" /\ sessExc' = "exit_cancelled"
    /\ UNCHANGED <<supVars, linkVars, shared, prodVars, send, writes, pureVars>>

\* line 110: self.connected = False
Teardown110 ==
    /\ supPc = "running" /\ sessPc = "l110"
    /\ connected' = FALSE
    /\ sessPc' = "l111"
    /\ UNCHANGED <<supVars, sessExc, sessCancel, linkVars, client, rx_char,
                   prodVars, send, writes, pureVars>>

\* line 111: self.client = None; then the async with exits (__aexit__)
Teardown111 ==
    /\ supPc = "running" /\ sessPc = "l111"
    /\ client' = None
    /\ sessPc' = "aexit"
    /\ UNCHANGED <<supVars, sessExc, sessCancel, linkVars, connected, rx_char,
                   prodVars, send, writes, pureVars>>

\* __aexit__ on a link that is still up: client.disconnect() takes it down and
\* returns before the loop runs the disconnected callback
AexitDisconnect ==
    /\ supPc = "running" /\ sessPc = "aexit" /\ linkUp /\ ~sessCancel
    /\ linkUp' = FALSE
    /\ UNCHANGED <<supVars, sessVars, linkMtu, open, shared, prodVars, send,
                   writes, pureVars>>

\* a session that ends without releasing its BleakClient
AexitDoneLeak ==
    /\ supPc = "running" /\ sessPc = "aexit" /\ ~linkUp /\ ~sessCancel
    /\ run_until_complete_ends(IF sessExc = "none" THEN "served" ELSE sessExc)
    /\ sessExc' = "none"
    /\ UNCHANGED <<attempts, sessCancel, linkVars, shared, prodVars, send,
                   writes, pureVars>>

\* the async with is left and connect_and_run ends: it returns, or re-raises
AexitDone ==
    /\ supPc = "running" /\ sessPc = "aexit" /\ ~linkUp /\ ~sessCancel
    /\ open' = open \ {attempts}
    /\ run_until_complete_ends(IF sessExc = "none" THEN "served" ELSE sessExc)
    /\ sessExc' = "none"
    /\ UNCHANGED <<attempts, sessCancel, linkUp, linkMtu, shared, prodVars,
                   send, writes, pureVars>>

SessionNext ==
    \/ ScanTimeout \/ ScanFail \/ ScanFound
    \/ ConnectOk \/ ConnectFail
    \/ SetClient \/ SetConnected
    \/ NotifyOk \/ NotifyFail
    \/ handle_disconnect \/ DeliverCancel
    \/ Teardown110 \/ Teardown111
    \/ AexitDisconnect \/ AexitDone

\* ---------------------------------------------------------------------
\* send_data_sync (src/main.py 116-124), on the producer thread
\* ---------------------------------------------------------------------
\* the session in progress, and whether it has resolved rx_char: a session is
\* Ready only between the two epochs <<k, FALSE>> and <<k, TRUE>> not Ready
Epoch == <<attempts, rx_char.sess = attempts>>

\* the session was not Ready at any moment of the call so far: it is not Ready
\* now, it was not at the steps before (prod.nr), and the epoch is still that
\* of the beginning of the call (prod.ep)
StillNotReady == prod.nr /\ ~Ready /\ Epoch = prod.ep

\* send_data_sync(msg) is entered on the producer thread; ev is the GUI event
\* whose handler makes the call
send_data_sync(msg, ev) ==
    /\ prod.pc = "idle"
    /\ nextMsg \in DOMAIN send
    /\ prod' = [pc |-> "l117", msg |-> msg, nr |-> ~Ready, ep |-> Epoch,
                ev |-> ev]
    /\ UNCHANGED <<supVars, sessVars, linkVars, shared, nextMsg, send, writes,
                   pureVars>>

\* the call begins
ProdCall == \E msg \in Msgs : send_data_sync(msg, NoEv)

\* the call returns to the producer
send_data_sync_returns ==
    /\ prod' = IdleProd
    /\ nextMsg' = nextMsg + 1

\* line 117, first operand: if not self.connected -> print, return
ProdCheckConnected ==
    /\ prod.pc = "l117"
    /\ IF ~connected
       THEN /\ send_data_sync_returns
            /\ send' = [send EXCEPT ![nextMsg].st = "refused"]
       ELSE /\ prod' = [prod EXCEPT !.pc = "l117b", !.nr = StillNotReady]
            /\ UNCHANGED <<nextMsg, send>>
    /\ UNCHANGED <<supVars, sessVars, linkVars, shared, writes, pureVars>>

\* line 117, second operand: or not self.rx_char -> print, return
ProdCheckRxChar ==
    /\ prod.pc = "l117b"
    /\ IF rx_char = NoChar
       THEN /\ send_data_sync_returns
            /\ send' = [send EXCEPT ![nextMsg].st = "refused"]
       ELSE /\ prod' = [prod EXCEPT !.pc = "l121", !.nr = StillNotReady]
            /\ UNCHANGED <<nextMsg, send>>
    /\ UNCHANGED <<supVars, sessVars, linkVars, shared, writes, pureVars>>

\* a send_data_sync that ends with future.result(): it returns only while the
\* loop is there to run the coroutine
ProdSubmitWaits ==
    /\ prod.pc = "l121"
    /\ LoopFree
    /\ send' = [send EXCEPT ![nextMsg] =
                   [NoSend EXCEPT !.st = "queued", !.msg = prod.msg,
                                  !.nr = StillNotReady, !.ev = prod.ev]]
    /\ prod' = IdleProd
    /\ nextMsg' = nextMsg + 1
    /\ UNCHANGED <<supVars, sessVars, linkVars, shared, writes, pureVars>>

\* lines 121-123: asyncio.run_coroutine_threadsafe(self._send_data(msg),
\* self.loop) puts a callback on the loop's ready queue and returns a future
\* that nobody reads; the call returns
ProdSubmit ==
    /\ prod.pc = "l121"
    /\ send' = [send EXCEPT ![nextMsg] =
                   [NoSend EXCEPT !.st = "queued", !.msg = prod.msg,
                                  !.nr = StillNotReady, !.ev = prod.ev]]
    /\ send_data_sync_returns
    /\ UNCHANGED <<supVars, sessVars, linkVars, shared, writes, pureVars>>

\* ---------------------------------------------------------------------
\* The key handlers of VideoApp (src/main.py 180-187, src/monitor_ble.py
\* 246-259): self.ble_manager.send_data_sync(f"<tag>{hex(event.key())}")
\* ---------------------------------------------------------------------
KeyEv(h, script, key) == [h |-> h, script |-> script, key |-> key]

\* src/main.py: f"KP:{hex(event.key())}"
keyPressEvent ==
    \E key \in Keys :
        send_data_sync(<<75, 80, 58>> \o hex(key),
                       KeyEv("keyPressEvent", "main.py", key))

\* src/main.py: f"KR:{hex(event.key())}"
keyReleaseEvent ==
    \E key \in Keys :
        send_data_sync(<<75, 82, 58>> \o hex(key),
                       KeyEv("keyReleaseEvent", "main.py", key))

\* src/monitor_ble.py: f"P:{hex(event.key())}"
monitor_keyPressEvent ==
    \E key \in Keys :
        send_data_sync(<<80, 58>> \o hex(key),
                       KeyEv("keyPressEvent", "monitor_ble.py", key))

\* src/monitor_ble.py: f"R:{hex(event.key())}"
monitor_keyReleaseEvent ==
    \E key \in Keys :
        send_data_sync(<<82, 58>> \o hex(key),
                       KeyEv("keyReleaseEvent", "monitor_ble.py", key))

KeyNext ==
    \/ keyPressEvent \/ keyReleaseEvent
    \/ monitor_keyPressEvent \/ monitor_keyReleaseEvent

ProducerNext == ProdCall \/ ProdCheckConnected \/ ProdCheckRxChar \/ ProdSubmit

\* ---------------------------------------------------------------------
\* _send_data (src/main.py 126-137), a task of the loop
\* ---------------------------------------------------------------------
\* The ready queue of the loop is first in, first out: the callbacks of
\* run_coroutine_threadsafe run in the order of the calls, and the first steps
\* of the tasks they make run in the order the tasks were made.  No send
\* earlier than m is in one of the states sts.
NoneBefore(m, sts) == \A k \in DOMAIN send : k < m => send[k].st \notin sts

\* a submission that runs the callbacks in any order
TaskCreateUnordered(m) ==
    /\ LoopFree
    /\ send[m].st = "queued"
    /\ send' = [send EXCEPT ![m].st = "created"]
    /\ UNCHANGED <<supVars, sessVars, linkVars, shared, prodVars, writes,
                   pureVars>>

\* the queued callback runs: ensure_future makes the coroutine a task
TaskCreate(m) ==
    /\ LoopFree
    /\ send[m].st = "queued"
    /\ NoneBefore(m, {"queued"})
    /\ send' = [send EXCEPT ![m].st = "created"]
    /\ UNCHANGED <<supVars, sessVars, linkVars, shared, prodVars, writes,
                   pureVars>>

\* line 136: await self.client.write_gatt_char(self.rx_char, chunk,
\* response=False) for chunk number i of message m; self.client and
\* self.rx_char are read again for every chunk
IssueWrite(m, chunks, max_size, i) ==
    IF client = None
    THEN \* AttributeError: 'NoneType' object has no attribute 'write_gatt_char'
         /\ send' = [send EXCEPT ![m].st = "failed", ![m].idx = i,
                                 ![m].chunks = chunks, ![m].max_size = max_size]
         /\ UNCHANGED writes
    ELSE /\ send' = [send EXCEPT ![m].st = "writing", ![m].idx = i,
                                 ![m].cl = client, ![m].chunks = chunks,
                                 ![m].max_size = max_size]
         /\ writes' = Append(writes,
                [msg |-> m, idx |-> i, len |-> Len(chunks[i]),
                 client |-> client, char |-> rx_char.sess, mtu |-> linkMtu,
                 ready |-> Ready])

\* a _send_data that issues every chunk at once, without awaiting the writes
RECURSIVE WriteRecords(_, _, _)
WriteRecords(m, chunks, i) ==
    IF i > Len(chunks) THEN <<>>
    ELSE <<[msg |-> m, idx |-> i, len |-> Len(chunks[i]), client |-> client,
            char |-> rx_char.sess, mtu |-> linkMtu, ready |-> Ready]>>
         \o WriteRecords(m, chunks, i + 1)

SendStartNoAwait(m) ==
    /\ LoopFree
    /\ send[m].st = "created"
    /\ IF rx_char = NoChar \/ client = None
       THEN /\ send' = [send EXCEPT ![m].st = "dropped"]
            /\ UNCHANGED writes
       ELSE LET chunks == sliced(encode(send[m].msg), rx_char.mtu)
            IN  /\ send' = [send EXCEPT ![m].st = "done", ![m].chunks = chunks,
                                        ![m].max_size = rx_char.mtu,
                                        ![m].idx = Len(chunks), ![m].cl = client]
                /\ writes' = writes \o WriteRecords(m, chunks, 1)
    /\ UNCHANGED <<supVars, sessVars, linkVars, shared, prodVars, pureVars>>

\* a _send_data that starts the writes of all its chunks together
\* (asyncio.gather) and then waits for them
SendStartGather(m) ==
    /\ LoopFree
    /\ send[m].st = "created"
    /\ IF rx_char = NoChar \/ client = None
       THEN /\ send' = [send EXCEPT ![m].st = "dropped"]
            /\ UNCHANGED writes
       ELSE LET chunks == sliced(encode(send[m].msg), rx_char.mtu)
            IN  /\ send' = [send EXCEPT ![m].st = "writing", ![m].chunks = chunks,
                                        ![m].max_size = rx_char.mtu,
                                        ![m].idx = 1, ![m].cl = client]
                /\ writes' = writes \o WriteRecords(m, chunks, 1)
    /\ UNCHANGED <<supVars, sessVars, linkVars, shared, prodVars, pureVars>>

\* the task's first step: the guard of line 128, encode, max_size, first chunk
SendStart(m) ==
    /\ LoopFree
    /\ send[m].st = "created"
    /\ NoneBefore(m, {"created"})
    /\ IF rx_char = NoChar \/ client = None
       THEN /\ send' = [send EXCEPT ![m].st = "dropped"]
            /\ UNCHANGED writes
       ELSE LET data == encode(send[m].msg)
                max_size == rx_char.mtu
                chunks == sliced(data, max_size)
            IN  IF chunks = <<>>
                THEN /\ send' = [send EXCEPT ![m].st = "done"]
                     /\ UNCHANGED writes
                ELSE IssueWrite(m, chunks, max_size, 1)
    /\ UNCHANGED <<supVars, sessVars, linkVars, shared, prodVars, pureVars>>

\* a write_gatt_char that returns although the link it was issued on has
\* dropped
WriteOkAnyLink(m) ==
    /\ LoopFree
    /\ send[m].st = "writing"
    /\ IF send[m].idx = Len(send[m].chunks)
       THEN /\ send' = [send EXCEPT ![m].st = "done"]
            /\ UNCHANGED writes
       ELSE IssueWrite(m, send[m].chunks, send[m].max_size, send[m].idx + 1)
    /\ UNCHANGED <<supVars, sessVars, linkVars, shared, prodVars, pureVars>>

\* write_gatt_char returns (the link it was issued on is up): the for loop
\* takes the next chunk, or ends
WriteOk(m) ==
    /\ LoopFree
    /\ send[m].st = "writing"
    /\ linkUp /\ send[m].cl = attempts
    /\ IF send[m].idx = Len(send[m].chunks)
       THEN /\ send' = [send EXCEPT ![m].st = "done"]
            /\ UNCHANGED writes
       ELSE IssueWrite(m, send[m].chunks, send[m].max_size, send[m].idx + 1)
    /\ UNCHANGED <<supVars, sessVars, linkVars, shared, prodVars, pureVars>>

\* a failed write that cancels the session
WriteFailTearsDown(m) ==
    /\ LoopFree
    /\ send[m].st = "writing"
    /\ send' = [send EXCEPT ![m].st = "failed"]
    /\ sessCancel' = TRUE
    /\ UNCHANGED <<supVars, sessPc, sessExc, linkVars, shared, prodVars, writes,
                   pureVars>>

\* write_gatt_char raises: the exception ends the task and stays in the
\* future returned by run_coroutine_threadsafe
WriteFail(m) ==
    /\ LoopFree
    /\ send[m].st = "writing"
    /\ send' = [send EXCEPT ![m].st = "failed"]
    /\ UNCHANGED <<supVars, sessVars, linkVars, shared, prodVars, writes,
                   pureVars>>

\* CancelledError is thrown into a _send_data task cancelled by handle_disconnect
SendCancelled(m) ==
    /\ LoopFree
    /\ send[m].st = "cancelling"
    /\ send' = [send EXCEPT ![m].st = "cancelled"]
    /\ UNCHANGED <<supVars, sessVars, linkVars, shared, prodVars, writes,
                   pureVars>>

SendNext ==
    \E m \in DOMAIN send :
        TaskCreate(m) \/ SendStart(m) \/ WriteOk(m) \/ WriteFail(m)
            \/ SendCancelled(m)

Next == run_loop \/ SessionNext \/ ProducerNext \/ SendNext

Spec == Init /\ [][Next]_vars

\* The transport thread keeps executing: _run_loop calls run_until_complete
\* again, and the loop runs the steps that are ready.  What the environment
\* does (scan results, connection results, link drops, the producer) is not
\* assumed fair.
Fairness ==
    /\ WF_vars(run_loop)
    /\ WF_vars(SetClient) /\ WF_vars(SetConnected)
    /\ WF_vars(DeliverCancel)
    /\ WF_vars(Teardown110) /\ WF_vars(Teardown111)
    /\ WF_vars(AexitDone)
    /\ WF_vars(ScanTimeout \/ ScanFail \/ ScanFound)

FairSpec == Spec /\ Fairness

\* ---------------------------------------------------------------------
\* Host shutdown (src/main.py 189-192, 291): closeEvent stops the camera and
\* accepts the close, app.exec_() returns and sys.exit ends the process.  No
\* method of BleManager is called; the transport thread is a daemon thread
\* (line 51) and ends with the process, wherever it is.  The GUI thread runs
\* one handler at a time, so it is not inside send_data_sync.
\* ---------------------------------------------------------------------
closeEvent ==
    /\ prod.pc = "idle"
    /\ supPc' = "exited"
    /\ prod' = [IdleProd EXCEPT !.pc = "exited"]
    /\ UNCHANGED <<attempts, ends, sessVars, linkVars, shared, nextMsg, send,
                   writes, pureVars>>

ShutdownNext == Next \/ closeEvent

ShutdownSpec == Init /\ [][ShutdownNext]_vars

\* ---------------------------------------------------------------------
\* One Ready session and the GUI: the state after run_loop, ScanFound,
\* ConnectOk, SetClient, SetConnected and NotifyOk of the first session, then
\* the key handlers as the callers of send_data_sync until the session ends
\* ---------------------------------------------------------------------
ReadyInit ==
    /\ supPc = "running" /\ attempts = 1 /\ ends = <<>>
    /\ sessPc = "serve" /\ sessExc = "none" /\ sessCancel = FALSE
    /\ linkUp = TRUE /\ linkMtu \in ReadyMTUs /\ open = {1}
    /\ client = 1 /\ connected = TRUE
    /\ rx_char = [sess |-> 1, mtu |-> linkMtu]
    /\ prod = IdleProd
    /\ nextMsg = 1
    /\ send = [m \in 1..(MaxMsgs + 1) |-> NoSend]
    /\ writes = <<>>
    /\ IdleSliced /\ IdleGui /\ IdleScan

ReadyNext ==
    \/ KeyNext
    \/ ProdCheckConnected \/ ProdCheckRxChar \/ ProdSubmit
    \/ SendNext
    \/ handle_disconnect \/ DeliverCancel
    \/ Teardown110 \/ Teardown111 \/ AexitDone

ReadySpec == ReadyInit /\ [][ReadyNext]_vars

\* ---------------------------------------------------------------------
\* sliced on its own: the inputs are drawn in the initial state
\* ---------------------------------------------------------------------
RECURSIVE SeqsUpTo(_, _)
SeqsUpTo(S, n) ==
    IF n = 0 THEN {<<>>}
    ELSE LET shorter == SeqsUpTo(S, n - 1)
         IN  shorter \cup {Append(q, b) : q \in shorter, b \in S}

SlicedInit ==
    /\ MainInit
    /\ cData \in SeqsUpTo(Bytes, MaxLen)
    /\ cN \in 1..MaxN
    /\ cOut = <<>>
    /\ cPc = "idle"
    /\ IdleGui /\ IdleScan

SlicedApply ==
    /\ cPc = "idle"
    /\ cOut' = sliced(cData, cN)
    /\ cPc' = "done"
    /\ UNCHANGED <<supVars, sessVars, linkVars, shared, prodVars, send, writes,
                   cData, cN, guiVars, scanVars>>

SlicedNext == SlicedApply

SlicedSpec == SlicedInit /\ [][SlicedNext]_vars


\* ---------------------------------------------------------------------
\* The mouse handlers of VideoApp (src/main.py 194-255) on their own: the
\* event and the geometry of the viewfinder are drawn in the initial state
\* ---------------------------------------------------------------------
\* int(a / b) of Python for b > 0: the quotient truncated toward zero
IntDiv(a, b) == IF a >= 0 THEN a \div b ELSE -((-a) \div b)

\* str(n) of Python for an integer
RECURSIVE DecDigits(_)
DecDigits(n) ==
    IF n < 10 THEN <<48 + n>> ELSE Append(DecDigits(n \div 10), 48 + (n % 10))

str(n) == IF n < 0 THEN <<45>> \o DecDigits(-n) ELSE DecDigits(n)

\* get_video_display_rect: the rectangle of the viewfinder that shows the
\* video, whose resolution is that of viewfinderSettings.  The quotients of
\* the code are floats; for the sizes of the model their truncations are
\* those of the exact quotients.
get_video_display_rect(fw, fh) ==
    IF TARGET_CAPTURE_WIDTH * fh > fw * TARGET_CAPTURE_HEIGHT
    THEN LET display_height ==
                 IntDiv(fw * TARGET_CAPTURE_HEIGHT, TARGET_CAPTURE_WIDTH)
         IN  [x_fs |-> 0, y_fx |-> (fh - display_height) \div 2,
              width |-> fw, height |-> display_height]
    ELSE LET display_width ==
                 IntDiv(fh * TARGET_CAPTURE_WIDTH, TARGET_CAPTURE_HEIGHT)
         IN  [x_fs |-> (fw - display_width) \div 2, y_fx |-> 0,
              width |-> display_width, height |-> fh]

\* pos = int((event.pos() - offset) / size * 32767)
Normalize(p, offset, size) == IntDiv((p - offset) * 32767, size)

\* the tag a handler sends for a button, <<>> when it sends nothing
Tag(h, button) ==
    CASE h = "mousePressEvent" /\ button = "Left" -> <<77, 76, 58>>      \* ML:
      [] h = "mousePressEvent" /\ button = "Right" -> <<77, 82, 58>>     \* MR:
      [] h = "mouseReleaseEvent" /\ button = "Left" -> <<77, 83, 58>>    \* MS:
      [] h = "mouseReleaseEvent" /\ button = "Right" -> <<77, 69, 58>>   \* ME:
      [] h = "mouseMoveEvent" -> <<77, 76, 58>>                           \* ML:
      [] OTHER -> <<>>

MouseEvents ==
    {[h |-> h, button |-> b, x |-> x, y |-> y, fw |-> fw, fh |-> fh] :
        h \in {"mousePressEvent", "mouseReleaseEvent"},
        b \in {"Left", "Right", "Middle"},
        x \in 0..(MaxW - 1), y \in 0..(MaxH - 1), fw \in 1..MaxW, fh \in 1..MaxH}
    \cup
    {[h |-> "mouseMoveEvent", button |-> "none", x |-> x, y |-> y,
      fw |-> fw, fh |-> fh] :
        x \in 0..(MaxW - 1), y \in 0..(MaxH - 1), fw \in 1..MaxW, fh \in 1..MaxH}

PointerInit ==
    /\ MainInit
    /\ IdleSliced /\ IdleScan
    /\ event \in {e \in MouseEvents : e.x < e.fw /\ e.y < e.fh}
    /\ sent = NoSent

\* mousePressEvent, mouseReleaseEvent, mouseMoveEvent: the same computation,
\* then send_data_sync(f"<tag>{pos_x},{pos_y}") for the buttons handled
MouseHandler ==
    /\ sent.st = "idle"
    /\ LET r == get_video_display_rect(event.fw, event.fh)
       IN  IF r.width = 0 \/ r.height = 0
           THEN \* ZeroDivisionError leaves the handler
                sent' = [NoSent EXCEPT !.st = "raised"]
           ELSE LET pos_x == Normalize(event.x, r.x_fs, r.width)
                    pos_y == Normalize(event.y, r.y_fx, r.height)
                    tag == Tag(event.h, event.button)
                IN  IF tag = <<>>
                    THEN sent' = [NoSent EXCEPT !.st = "ignored"]
                    ELSE sent' = [st |-> "sent", pos_x |-> pos_x, pos_y |-> pos_y,
                                  msg |-> tag \o str(pos_x) \o <<44>> \o str(pos_y)]
    /\ UNCHANGED <<supVars, sessVars, linkVars, shared, prodVars, send, writes,
                   chunkVars, event, scanVars>>

PointerNext == MouseHandler

PointerSpec == PointerInit /\ [][PointerNext]_vars

\* ---------------------------------------------------------------------
\* The scan of connect_and_run on its own (src/main.py 68-90,
\* src/monitor_ble.py 116-135): the advertisers are drawn in the initial state
\* ---------------------------------------------------------------------
\* s.lower() for the ASCII letters
lower(s) == [i \in DOMAIN s |-> IF s[i] \in 65..90 THEN s[i] + 32 ELSE s[i]]

\* sub in s
Contains(sub, s) ==
    \E i \in 0..(Len(s) - Len(sub)) : SubSeq(s, i + 1, i + Len(sub)) = sub

\* a filter that takes a device that has the name or the service
match_hid_device_either(d) ==
    \/ d.name # <<>> /\ Contains(TARGET_BLE_NAME, d.name)
    \/ lower(HID_SERVICE_UUID) \in {lower(u) : u \in d.uuids}

\* src/main.py 68-73
match_hid_device(d) ==
    /\ d.name # <<>> /\ Contains(TARGET_BLE_NAME, d.name)
    /\ lower(HID_SERVICE_UUID) \in {lower(u) : u \in d.uuids}

\* src/monitor_ble.py 116-119
match_nus_uuid(d) == lower(UART_SERVICE_UUID) \in d.uuids

Devices == [name : Names, uuids : SUBSET Uuids]

\* the sets of at most n elements of S
RECURSIVE SetsUpTo(_, _)
SetsUpTo(S, n) ==
    IF n = 0 THEN {{}}
    ELSE LET smaller == SetsUpTo(S, n - 1)
         IN  smaller \cup {D \cup {d} : D \in smaller, d \in S}

ScanInit ==
    /\ MainInit
    /\ IdleSliced /\ IdleGui
    /\ adv \in [script : {"main.py", "monitor_ble.py"},
                 devs : SetsUpTo(Devices, MaxAdv) \ {{}}]
    /\ device = NoDevice

\* BleakScanner.find_device_by_filter returns a device the filter accepted,
\* or None when the timeout passes first
find_device_by_filter ==
    /\ device.st = "idle"
    /\ \/ \E d \in adv.devs :
             /\ IF adv.script = "main.py" THEN match_hid_device(d)
                                          ELSE match_nus_uuid(d)
             /\ device' = [st |-> "found", dev |-> d]
       \/ device' = [st |-> "None", dev |-> NoDev]
    /\ UNCHANGED <<supVars, sessVars, linkVars, shared, prodVars, send, writes,
                   chunkVars, guiVars, adv>>

\* if device is None: return
DeviceNotFound ==
    /\ device.st = "None"
    /\ device' = [device EXCEPT !.st = "returned"]
    /\ UNCHANGED <<supVars, sessVars, linkVars, shared, prodVars, send, writes,
                   chunkVars, guiVars, adv>>

\* async with BleakClient(device, ...): the connect to the device begins
ConnectDevice ==
    /\ device.st = "found"
    /\ device' = [device EXCEPT !.st = "connect"]
    /\ UNCHANGED <<supVars, sessVars, linkVars, shared, prodVars, send, writes,
                   chunkVars, guiVars, adv>>

ScanNext == find_device_by_filter \/ DeviceNotFound \/ ConnectDevice

ScanSpec == ScanInit /\ [][ScanNext]_vars

\* =====================================================================
\* Properties
\* =====================================================================
Last(q) == q[Len(q)]
WritesIn(ws, m) == SelectSeq(ws, LAMBDA w : w.msg = m)
Lens(chunks) == [j \in DOMAIN chunks |-> Len(chunks[j])]

RECURSIVE Concat(_)
Concat(chunks) ==
    IF chunks = <<>> THEN <<>> ELSE Head(chunks) \o Concat(Tail(chunks))

\* a session has ended and no new one has started
SessionEnded == ends # <<>> /\ sessPc = "none"

\* C1: a send_data_sync call made while the session is not Ready leads to no
\* write_gatt_char call for its message (nr: the session was not Ready at any
\* moment of the call).
C1_FacadeNoOp ==
    \A j \in DOMAIN writes : ~send[writes[j].msg].nr

\* C4: whenever a session has ended, by any exit path, connected = False and
\* client = None.
C4_TeardownUnconditional ==
    SessionEnded => (connected = FALSE /\ client = None)

\* C5: every chunk written is no longer than the max write size of the
\* characteristic resolved in the session whose link carries the write, and
\* the characteristic used was resolved in that session.
C5_PerSessionMtu ==
    \A j \in DOMAIN writes :
        /\ writes[j].char = writes[j].client
        /\ writes[j].len <= writes[j].mtu

\* C7: sliced(P, n) for n > 0 yields chunks whose concatenation is P, every
\* chunk but the last of length n, the last of length 1..n, and no chunk for
\* an empty P.
C7_ChunkerCorrect ==
    cPc = "done" =>
        /\ Concat(cOut) = cData
        /\ \A k \in 1..(Len(cOut) - 1) : Len(cOut[k]) = cN
        /\ cOut # <<>> => Len(Last(cOut)) \in 1..cN
        /\ cData = <<>> => cOut = <<>>

\* a payload cut into several chunks with a shorter last one
C7_Witness ==
    /\ cPc = "done"
    /\ Len(cOut) >= 2
    /\ Len(Last(cOut)) < cN

\* C8: at most one BleakClient context is open at any time, and while a
\* session connects, serves or exits, the open one is its own.
C8_SingleLiveConnection ==
    /\ Cardinality(open) <= 1
    /\ sessPc \in {"connect", "l91", "l92", "notify", "serve", "l110", "l111",
                   "aexit"} => open = {attempts}
    /\ sessPc \in {"none", "scan"} => open = {}

\* the second session holds the only open client after the first was served
\* and released
C8_Witness ==
    /\ ends = <<"served">>
    /\ attempts = 2
    /\ open = {2}
    /\ linkUp

OnlyTimeouts == \A j \in DOMAIN ends : ends[j] = "timeout"

\* C3: after N consecutive scan timeouts the supervisor has started exactly
\* N + 1 sessions (N of them until it calls run_until_complete again), it is
\* never stopped, and it always goes on to the next attempt.
C3_ScanTimeoutLiveness ==
    /\ [](OnlyTimeouts =>
            /\ supPc \in {"top", "running"}
            /\ attempts = Len(ends) + (IF supPc = "running" THEN 1 ELSE 0))
    /\ \A n \in 0..(MaxSessions - 1) :
          (OnlyTimeouts /\ Len(ends) = n /\ supPc = "top") ~> (attempts = n + 1)

\* every session so far timed out and one more attempt is running
C3_Witness ==
    /\ OnlyTimeouts
    /\ Len(ends) = MaxSessions - 1
    /\ attempts = MaxSessions
    /\ supPc = "running"

\* the 45-byte payload of the chunking scenario
Payload45 == [j \in 1..45 |-> 65]

\* the writes of each message so far are its chunks 1, 2, ... in this order
ChunksInOrder ==
    \A m \in 1..MaxMsgs :
        LET ws == WritesIn(writes, m)
        IN  /\ \A j \in DOMAIN ws :
                  /\ ws[j].idx = j
                  /\ ws[j].len = Len(send[m].chunks[j])
            /\ ws # <<>> =>
                  send[m].chunks = sliced(encode(send[m].msg), send[m].max_size)
            /\ send[m].st = "writing" => Len(ws) = send[m].idx
            /\ send[m].st = "done" => Len(ws) = Len(send[m].chunks)

\* a step issues at most one write per message, and a chunk after the first
\* only as the continuation of the awaited write of the chunk before it
OneWriteAtATime ==
    \A m \in 1..MaxMsgs :
        LET a == Len(WritesIn(writes, m))
            b == Len(WritesIn(writes', m))
        IN  b # a =>
              /\ b = a + 1
              /\ a > 0 => (send[m].st = "writing" /\ send[m].idx = a /\ linkUp)

\* C6: the chunks of a message are written in increasing offset order, chunk
\* i + 1 only after the write of chunk i has returned; 45 bytes with max write
\* size 20 are written as 20, 20, 5.
C6_InOrderChunks ==
    /\ Lens(sliced(Payload45, 20)) = <<20, 20, 5>>
    /\ []ChunksInOrder
    /\ [][OneWriteAtATime]_vars

\* a message written to its end in three chunks, the last one shorter
C6_Witness ==
    \E m \in 1..MaxMsgs :
        /\ send[m].st = "done"
        /\ [j \in DOMAIN WritesIn(writes, m) |-> WritesIn(writes, m)[j].len]
               = <<2, 2, 1>>

\* after a failed send no later chunk of the message is on the wire and no
\* chunk was written twice
NoChunkAfterFailure ==
    \A m \in 1..MaxMsgs :
        send[m].st = "failed" =>
            \A j, k \in DOMAIN writes :
                writes[j].msg = m =>
                    /\ writes[j].idx <= send[m].idx
                    /\ (writes[k].msg = m /\ writes[k].idx = writes[j].idx) => j = k

\* the failure of a write changes nothing of the session or the supervisor,
\* and a failed send stays failed and writes nothing more
FailureIsolated ==
    \A m \in 1..MaxMsgs :
        /\ (send[m].st = "writing" /\ send'[m].st = "failed") =>
              UNCHANGED <<supPc, attempts, ends, sessPc, sessExc, sessCancel,
                          linkUp, open, client, connected, rx_char>>
        /\ send[m].st = "failed" =>
              (send'[m] = send[m] /\ WritesIn(writes', m) = WritesIn(writes, m))

\* C9: when write_gatt_char raises for chunk i, no later chunk of the message
\* is written, the message is not retried, and the failed send leaves the
\* supervisor, the session, connected, client and rx_char as they are.
C9_WriteFailureIsolation ==
    /\ []NoChunkAfterFailure
    /\ [][FailureIsolated]_vars

\* a send failed with chunks left while the session goes on serving
C9_Witness ==
    \E m \in 1..MaxMsgs :
        /\ send[m].st = "failed"
        /\ send[m].idx < Len(send[m].chunks)
        /\ Ready /\ connected /\ ~sessCancel /\ linkUp

\* C10: in every state of the transport the producer's next step inside
\* send_data_sync can be taken at once (it waits for no scan, connect or
\* write), and the call has no outcome other than returning.
C10_NonBlockingProducer ==
    /\ prod.pc \in {"idle", "l117", "l117b", "l121"}
    /\ prod.pc = "l117" => ENABLED ProdCheckConnected
    /\ prod.pc = "l117b" => ENABLED ProdCheckRxChar
    /\ prod.pc = "l121" => ENABLED ProdSubmit

\* a call went through and returned while the supervisor was stopped or dead:
\* the coroutine stays queued and the write that failed before stays failed
C10_Witness ==
    /\ supPc \in {"stopped", "dead"}
    /\ prod.pc = "idle"
    /\ \E m \in 1..MaxMsgs : send[m].st = "queued" /\ send[m].nr

\* the sends of the key-press events with key code 0x41 whose coroutine read
\* a max write size of 20 and ran to its end
KeyPress41Done ==
    {m \in DOMAIN send :
        /\ send[m].ev.h = "keyPressEvent" /\ send[m].ev.key = 65
        /\ send[m].max_size = 20 /\ send[m].st = "done"}

\* C11 as stated: in a Ready session with max write size 20 a key-press event
\* with key code 0x41 results in exactly one write_gatt_char call whose
\* payload is the 6 bytes "P:0x41".
C11_KeyPressPayload ==
    \A m \in KeyPress41Done :
        /\ Len(WritesIn(writes, m)) = 1
        /\ send[m].chunks = << <<80, 58, 48, 120, 52, 49>> >>

\* C11 amended: the key press results in exactly one write_gatt_char call; its
\* payload is the 6 bytes "P:0x41" when the handler is that of
\* src/monitor_ble.py and the 7 bytes "KP:0x41" when it is that of src/main.py.
C11_KeyPressPerScript ==
    /\ \A m \in KeyPress41Done :
          /\ Len(WritesIn(writes, m)) = 1
          /\ send[m].chunks =
                IF send[m].ev.script = "main.py"
                THEN << <<75, 80, 58, 48, 120, 52, 49>> >>
                ELSE << <<80, 58, 48, 120, 52, 49>> >>
          /\ WritesIn(writes, m)[1].len = Len(send[m].chunks[1])
    /\ \A m \in DOMAIN send :
          (send[m].ev.key = 65 /\ send[m].max_size = 20) =>
              Len(WritesIn(writes, m)) <= 1
    \* hex(0x4a) = "0x4a", hex(0x1000000) = "0x1000000" (Qt.Key_Escape)
    /\ hex(74) = <<48, 120, 52, 97>>
    /\ hex(16777216) = <<48, 120, 49, 48, 48, 48, 48, 48, 48>>

\* both handlers have had their key press written in one call on one link
C11_Witness ==
    /\ linkUp /\ Ready
    /\ \E m, n \in KeyPress41Done :
          /\ send[m].ev.script = "main.py"
          /\ send[n].ev.script = "monitor_ble.py"

\* C12: for every pointer press, release and move event at any position of
\* the widget, the margins outside the video rectangle included, both
\* integers of the "x,y" payload lie in [0, 32767].
C12_PointerRange ==
    sent.st = "sent" =>
        /\ sent.pos_x \in 0..32767
        /\ sent.pos_y \in 0..32767

\* C13: when the host process shuts down (window close) while a session is
\* connected or suspended in any step, the session's teardown has completed
\* when the process exits: connected = False and the client released.
C13_ShutdownRunsTeardown ==
    supPc = "exited" => (connected = FALSE /\ client = None /\ open = {})

\* C14: in every reachable state rx_char is either unset or was resolved on
\* the connection that is live now (teardown invalidates it with the client).
C14_RxCharInvalidated ==
    rx_char # NoChar => (rx_char.sess \in open /\ rx_char.sess = attempts)

\* the step is a run of handle_disconnect: it requests the cancellation of
\* connect_and_run
CallbackFires == ~sessCancel /\ sessCancel'

\* the _send_data tasks that the step cancels
CancelledBy == {m \in DOMAIN send : send[m].st # "cancelling" /\ send'[m].st = "cancelling"}

\* handle_disconnect runs only inside the BleakClient context of the session
\* that registered it, after that session's connect: the connect_and_run task
\* it cancels is that session's, suspended in start_notify, in the serve loop
\* or in the exit of the context, and the sends it cancels are tasks that
\* existed in that session
CallbackInOwnSession ==
    CallbackFires =>
        /\ linkUp /\ open = {attempts}
        /\ sessPc \in {"notify", "serve", "aexit"}
        /\ UNCHANGED <<attempts, sessPc, open>>
        /\ \A m \in CancelledBy : send[m].st \in {"created", "writing"}

\* C15: the handle_disconnect callback registered by session k runs only
\* while session k holds its link, so what it cancels is never the
\* connect_and_run task or a send task of a later session: a link that is up
\* is the link of the running session, and no session starts while a
\* cancellation is pending.
C15_CallbackScoped ==
    /\ [](linkUp => (supPc = "running" /\ open = {attempts}))
    /\ [](sessCancel => sessPc \in {"notify", "serve", "aexit"})
    /\ [][CallbackFires => CallbackInOwnSession]_vars
    /\ [][attempts' # attempts => (~sessCancel /\ ~linkUp)]_vars

\* the callback of the second session has fired in its serve loop and has
\* cancelled a send that was writing
C15_Witness ==
    /\ attempts = 2 /\ ends = <<"served">>
    /\ sessPc = "serve" /\ sessCancel /\ ~linkUp
    /\ \E m \in DOMAIN send : send[m].st = "cancelling"

\* C16: when the disconnect callback fires while the exit of the async with
\* (the client's disconnect) is already in progress, the session still ends
\* with connected = False and client = None, its connection released, and the
\* supervisor goes on to the next session.
C16_TeardownIdempotent ==
    (SessionEnded /\ Last(ends) = "exit_cancelled") =>
        /\ connected = FALSE /\ client = None
        /\ open = {}
        /\ supPc = "top"

\* C17: in every reachable state connected = True implies that client is a
\* non-None handle whose link has not been released (teardown resets
\* connected first, before client is cleared and the link released).
C17_NoReadyMidTeardown ==
    connected => (client # None /\ client \in open)

\* the operation connect_and_run is suspended in, if it is one of the link:
\* the scan, the connect, start_notify, or the disconnect of the context exit
SessionOps ==
    IF supPc = "running"
          /\ (sessPc \in {"scan", "connect", "notify"} \/ (sessPc = "aexit" /\ linkUp))
    THEN 1 ELSE 0

\* the write_gatt_char calls issued that have not returned: those of a send
\* that is suspended in a write, from the chunk it waits for onward
WritesInFlight ==
    {j \in DOMAIN writes :
        /\ send[writes[j].msg].st = "writing"
        /\ writes[j].idx >= send[writes[j].msg].idx}

\* C18 as stated: at most one BLE operation (scan, connect, start_notify,
\* write_gatt_char, disconnect) is in flight at any instant, whatever the
\* number of submitted messages.
C18_SingleOperation ==
    SessionOps + Cardinality(WritesInFlight) <= 1

\* C18 amended: every task of the loop has at most one BLE operation in
\* flight (a _send_data task awaits each write before the next one), but the
\* tasks run concurrently: there can be one write in flight per message that
\* is being sent, beside the operation connect_and_run is suspended in.
C18_OneOperationPerTask ==
    /\ \A m \in DOMAIN send :
          Cardinality({j \in WritesInFlight : writes[j].msg = m}) <= 1
    /\ Cardinality(WritesInFlight)
          = Cardinality({m \in DOMAIN send : send[m].st = "writing"})
    /\ SessionOps + Cardinality(WritesInFlight) <= 1 + Cardinality(DOMAIN send)

\* the writes of two messages are in flight together on the live link of a
\* Ready session, one of them for a later chunk of its message
C18_Witness ==
    /\ Ready /\ linkUp /\ ~sessCancel
    /\ Cardinality(WritesInFlight) = 2
    /\ \E j \in WritesInFlight : writes[j].idx > 1

\* the device has the target name in its name, and the service UUID among
\* its advertised UUIDs when letter case is ignored
NameMatches(d) == Contains(TARGET_BLE_NAME, d.name)
UuidMatchesAnyCase(d) ==
    \E u \in d.uuids : lower(u) = lower(HID_SERVICE_UUID)

\* C19 as stated: a session proceeds to Connect only with a device whose name
\* contains the target name and whose advertised UUIDs contain the service
\* UUID under case-insensitive comparison.
C19_ScanFilter ==
    device.st = "connect" =>
        (NameMatches(device.dev) /\ UuidMatchesAnyCase(device.dev))

\* C19 amended: the device connected to is one of the advertisers; with
\* src/main.py its name contains the target name and its UUIDs contain the
\* service UUID whatever the letter case; with src/monitor_ble.py no name is
\* looked at and the lower-case service UUID is among the UUIDs exactly as
\* they were advertised.
C19_ScanFilterPerScript ==
    device.st \in {"found", "connect"} =>
        /\ device.dev \in adv.devs
        /\ adv.script = "main.py" =>
              (NameMatches(device.dev) /\ UuidMatchesAnyCase(device.dev))
        /\ adv.script = "monitor_ble.py" => HID_SERVICE_UUID \in device.dev.uuids

\* src/main.py connects to "HID BLE Relay #2", which advertises the service
\* UUID in upper case only, while a device without the name advertises too
C19_Witness ==
    /\ device.st = "connect" /\ adv.script = "main.py"
    /\ device.dev.name # TARGET_BLE_NAME
    /\ HID_SERVICE_UUID \notin device.dev.uuids
    /\ \E d \in adv.devs : ~NameMatches(d) /\ UuidMatchesAnyCase(d)

\* C20: when two send_data_sync calls m1 then m2 are accepted in the same
\* Ready session and each message fits in one chunk, the write_gatt_char call
\* for m1 is issued before the one for m2.
C20_SubmissionOrder ==
    \A j, k \in DOMAIN writes :
        (/\ writes[j].msg < writes[k].msg
         /\ Len(send[writes[j].msg].chunks) = 1
         /\ Len(send[writes[k].msg].chunks) = 1) => j < k

\* a key press and then its release were both written, one chunk each, while
\* both sends were tasks of the loop at the same time
C20_Witness ==
    /\ Len(writes) = 2
    /\ writes[1].msg = 1 /\ writes[2].msg = 2
    /\ send[1].ev.h = "keyPressEvent" /\ send[2].ev.h = "keyReleaseEvent"
    /\ send[1].st = "writing" /\ send[2].st = "writing"
    /\ Len(send[1].chunks) = 1 /\ Len(send[2].chunks) = 1

\* the states of a submission that send_data_sync accepted and whose
\* _send_data has not run to an end: the callback is on the ready queue, the
\* task is made, a write is awaited, or a cancellation is to be delivered
Unprocessed == {"queued", "created", "writing", "cancelling"}

\* the transport thread has left _run_loop: nothing runs the loop any more
ThreadEnded == supPc \in {"stopped", "dead"}

\* C21: every accepted submission is eventually processed, and none stays
\* queued forever after a session has ended abnormally: once the transport
\* thread has ended, which is for good, no accepted submission is left
\* unprocessed.
C21_AcceptedProcessed ==
    ThreadEnded => \A m \in DOMAIN send : send[m].st \notin Unprocessed

\* a step in which _send_data of message m calls self.client.write_gatt_char
\* (line 136): a write is issued for m, or the call raises AttributeError
\* because self.client is None and the send fails at the chunk it was to write
WriteAttempt(m) ==
    \/ Len(WritesIn(writes', m)) > Len(WritesIn(writes, m))
    \/ /\ send[m].st \in {"created", "writing"}
       /\ send'[m].st = "failed"
       /\ send'[m].idx = send[m].idx + 1

\* self.client is the BleakClient of the session in progress, whose async
\* with has not been left
ClientIsLive ==
    /\ client # None
    /\ supPc = "running"
    /\ client = attempts
    /\ client \in open

====
